---- MODULE Spec2Model ----
(***************************************************************************)
(* Model of my_discord_bot.main(): the RSS -> Discord delivery pipeline.   *)
(* One run of main() is cut at its blocking points (feed fetch, webhook    *)
(* POST, back-off sleep, cool-down sleep, feed commit); the sqlite file is *)
(* split into the committed table (db) and the connection's view of it     *)
(* with the open transaction applied (conn).                               *)
(***************************************************************************)
EXTENDS Integers, Sequences, FiniteSets, TLC

\* ---------------------------------------------------------------- bounds
MaxRuns == 2        \* runs of main() against the same sent_entries.db
MaxFeeds == 2       \* lines of the rss links file
MaxEntries == 2     \* entries one parsed feed returns
MaxCount == 2       \* largest MAX_ENTRIES_PER_RSS tried

\* ------------------------------------------------------- program constants
DEVELOPMENT == 1
PRODUCTION == 2
DefaultRetryAfter == 5
CoolDown == 1

\* entry links; "" is what entry.get("link", "") gives for a missing link
Links == {"a", "b"}
LinkValues == Links \cup {""}

\* values a well-formed retry_after hint takes
RetryHints == {2}

\* ------------------------------------------------------------------ state
VARIABLES
    pc,                  \* position of main(): idle, feed, entry, post, sleep, retry, cooldown
    runs,                \* number of runs started; also datetime.now() of the run
    result,              \* how the last run ended
    db,                  \* sent_entries.db as committed: [exists, rows]
    conn,                \* rows seen through the open connection (uncommitted included)
    running_mode,
    max_entries_per_rss,
    rss_links,           \* number of feed links read from the file
    rss_i,               \* index of the feed the for loop is at
    all_feed_stats,      \* list of FeedStats; the last one is `stats`
    data,                \* what feedparser.parse returned for the current feed
    random_entries,      \* the sampled batch
    entry_i,             \* index of the entry the inner for loop is at
    resp,                \* outcome of the last requests.post: [status, body]
    retry_after,         \* back-off read from the 429 body
    posts,               \* history: url -> number of successful POSTs, all runs
    trace,               \* history: store and network operations of the current entry
    released,            \* history: urls rolled back in this run and not reserved since
    failedUrls,          \* history: urls whose delivery ended in Failed in this run
    postedUrls,          \* history: urls posted successfully in this run
    run_start,           \* history: committed rows when the run opened the store
    prev_run             \* history: the feed and failures of the last completed one-feed
                         \* run that selected every entry, all with distinct links

vars == <<pc, runs, result, db, conn, running_mode, max_entries_per_rss, rss_links,
          rss_i, all_feed_stats, data, random_entries, entry_i, resp, retry_after,
          posts, trace, released, failedUrls, postedUrls, run_start, prev_run>>

\* ---------------------------------------------------------------- helpers
Min(x, y) == IF x <= y THEN x ELSE y
Max(x, y) == IF x >= y THEN x ELSE y

\* FeedStats(feed_name=...) with its dataclass defaults
FeedStats(name) ==
    [feed_name |-> name, available |-> 0, selected |-> 0, new |-> 0,
     duplicate |-> 0, posted |-> 0, failed |-> 0, duplicates |-> <<>>]

\* DuplicateEntry(url=entry_link, delivered=now, sql_error="duplicate")
DuplicateEntry(url, now) == [url |-> url, delivered |-> now, sql_error |-> "duplicate"]

Urls(rows) == {r.url : r \in rows}

\* CREATE TABLE IF NOT EXISTS sent_entries (url TEXT PRIMARY KEY, delivered TIMESTAMP)
CreateTableIfNotExists(d) ==
    IF d.exists THEN d ELSE [exists |-> TRUE, rows |-> {}]

\* mutant: INSERT OR REPLACE, which rewrites the row of a url already present
InsertOrReplace(rows, url, now) ==
    {r \in rows : r.url # url} \cup {[url |-> url, delivered |-> now]}

\* INSERT OR IGNORE INTO sent_entries (url, delivered) VALUES (?, ?)
InsertOrIgnore(rows, url, now) ==
    IF \E r \in rows : r.url = url
    THEN rows
    ELSE rows \cup {[url |-> url, delivered |-> now]}

\* mutant: the row count of a plain INSERT, always one row
RowCountOfInsert(rows, url) == 1

\* c.rowcount after the INSERT OR IGNORE
RowCount(rows, url) == IF \E r \in rows : r.url = url THEN 0 ELSE 1

\* mutant: a DELETE that matches no row
DeleteNothing(rows, url) == rows

\* DELETE FROM sent_entries WHERE url = ?
DeleteUrl(rows, url) == {r \in rows : r.url # url}

\* min(len(data.entries), random.randint(1, max(1, max_entries_per_rss)))
RandInts(maxn) == 1 .. Max(1, maxn)

\* mutant: the whole feed, whatever the random count
SampleAll(n, k) == n

SampleCount(n, k) == Min(n, k)

\* mutant: positions drawn with replacement
SampleWithReplacement(entries, k) ==
    {[i \in 1 .. k |-> entries[s[i]]] : s \in [1 .. k -> 1 .. Len(entries)]}

\* random.sample(entries, k): k entries at distinct positions, in any order
Sample(entries, k) ==
    LET pos == {s \in [1 .. k -> 1 .. Len(entries)] :
                   \A i, j \in 1 .. k : i # j => s[i] # s[j]}
    IN {[i \in 1 .. k |-> entries[s[i]]] : s \in pos}

\* what feedparser.parse can return: bozo flag and the entries (id = position)
FeedEntries ==
    UNION {{[i \in 1 .. n |-> [id |-> i, link |-> f[i]]] : f \in [1 .. n -> LinkValues]} :
           n \in 0 .. MaxEntries}
ParseResults == [bozo : BOOLEAN, entries : FeedEntries]

\* mutant: the counter goes up by two
BumpTwice(list, f) == [list EXCEPT ![Len(list)][f] = @ + 2]

\* the current FeedStats with one counter incremented
Bump(list, f) == [list EXCEPT ![Len(list)][f] = @ + 1]

\* one store or network operation of the entry being processed
Event(op, status, secs) == [op |-> op, status |-> status, secs |-> secs]

\* no response yet
NoResp == [status |-> "none", body |-> [kind |-> "none", value |-> 0]]

\* every entry has a link and no two entries share one
DistinctLinks(entries) ==
    \A i, j \in 1 .. Len(entries) :
        entries[i].link # "" /\ (i # j => entries[i].link # entries[j].link)

\* no completed one-feed run that selected every entry
NoRun == [feed |-> <<>>, failed |-> 0]

\* FeedStats of the feed being processed
stats == all_feed_stats[Len(all_feed_stats)]

\* the memory of a process that is not running holds nothing
NoProcess ==
    /\ pc = "idle"
    /\ conn = {}
    /\ running_mode = PRODUCTION
    /\ max_entries_per_rss = 1
    /\ rss_links = 0
    /\ rss_i = 1
    /\ all_feed_stats = <<>>
    /\ data = [bozo |-> FALSE, entries |-> <<>>]
    /\ random_entries = <<>>
    /\ entry_i = 1
    /\ resp = NoResp
    /\ retry_after = 0
    /\ trace = <<>>
    /\ released = {}
    /\ failedUrls = {}
    /\ postedUrls = {}
    /\ run_start = {}

\* the process ends: its memory is gone, only sent_entries.db stays
Exit ==
    /\ pc' = "idle"
    /\ conn' = {}
    /\ running_mode' = PRODUCTION
    /\ max_entries_per_rss' = 1
    /\ rss_links' = 0
    /\ rss_i' = 1
    /\ all_feed_stats' = <<>>
    /\ data' = [bozo |-> FALSE, entries |-> <<>>]
    /\ random_entries' = <<>>
    /\ entry_i' = 1
    /\ resp' = NoResp
    /\ retry_after' = 0
    /\ trace' = <<>>
    /\ released' = {}
    /\ failedUrls' = {}
    /\ postedUrls' = {}
    /\ run_start' = {}

\* -------------------------------------------------------------------- Init
\* no run yet, no sent_entries.db file
Init ==
    /\ NoProcess
    /\ runs = 0
    /\ result = "none"
    /\ db = [exists |-> FALSE, rows |-> {}]
    /\ posts = [u \in Links |-> 0]
    /\ prev_run = NoRun

\* ----------------------------------------------------------- configuration
\* MODE: absent, or a string; "x" is not an integer, 9 is not a Mode value
ModeEnv == {"absent", "1", "2", "9", "x"}
\* MAX_ENTRIES_PER_RSS: an integer n, or a string int() rejects
MaxEntriesEnv == {[int |-> FALSE, n |-> 0]} \cup {[int |-> TRUE, n |-> n] : n \in 0 .. MaxCount}
\* argv long enough, links file found, number of links, webhook url well formed
Configs ==
    [mode : ModeEnv, argv_ok : BOOLEAN, file_found : BOOLEAN,
     links : 0 .. MaxFeeds, max_entries : MaxEntriesEnv, webhook_ok : BOOLEAN]

ParseMode(m) ==
    CASE m = "absent" -> PRODUCTION
      [] m = "1" -> DEVELOPMENT
      [] m = "2" -> PRODUCTION
      [] OTHER -> 0

\* lines 100-168 of main(): TRUE when none of the `return 1` is taken
ConfigOk(cfg) ==
    /\ ParseMode(cfg.mode) # 0
    /\ cfg.argv_ok
    /\ cfg.file_found
    /\ cfg.links > 0
    /\ cfg.max_entries.int
    /\ cfg.max_entries.n > 0
    /\ (ParseMode(cfg.mode) = PRODUCTION => cfg.webhook_ok)

\* mutant: the commit writes nothing
NoCommit(d, rows) == d

\* conn.commit(): the rows seen through the connection become the table
Commit(d, rows) == [d EXCEPT !.rows = rows]

\* a configuration error: return 1 before the store is opened
ConfigError ==
    /\ pc = "idle"
    /\ runs < MaxRuns
    /\ \E cfg \in Configs : ~ConfigOk(cfg)
    /\ runs' = runs + 1
    /\ result' = "return1"
    /\ UNCHANGED <<pc, db, conn, running_mode, max_entries_per_rss, rss_links, rss_i,
                   all_feed_stats, data, random_entries, entry_i, resp, retry_after,
                   posts, trace, released, failedUrls, postedUrls, run_start, prev_run>>

\* configuration accepted: connect, create the table if absent, commit
StartRun ==
    /\ pc = "idle"
    /\ runs < MaxRuns
    /\ \E cfg \in Configs :
        /\ ConfigOk(cfg)
        /\ running_mode' = ParseMode(cfg.mode)
        /\ rss_links' = cfg.links
        /\ max_entries_per_rss' = cfg.max_entries.n
    /\ runs' = runs + 1
    /\ result' = "running"
    /\ db' = CreateTableIfNotExists(db)
    /\ conn' = db'.rows
    /\ run_start' = db'.rows
    /\ all_feed_stats' = <<>>
    /\ rss_i' = 1
    /\ entry_i' = 1
    /\ random_entries' = <<>>
    /\ trace' = <<>>
    /\ released' = {}
    /\ failedUrls' = {}
    /\ postedUrls' = {}
    /\ pc' = "feed"
    /\ UNCHANGED <<data, resp, retry_after, posts, prev_run>>

\* ------------------------------------------------------------ feed level
\* mutant: `break` instead of `continue`: the feed loop ends
Break(i) == rss_links + 1

\* `continue` in the feed loop: on to the next link
Continue(i) == i + 1

\* lines 186-217: parse the feed, open its FeedStats, sample the batch
Fetch ==
    /\ pc = "feed"
    /\ rss_i <= rss_links
    /\ \E d \in ParseResults :
        /\ data' = d
        /\ LET opened == Append(all_feed_stats, FeedStats(rss_i))
               n == Len(d.entries)
           IN IF (d.bozo /\ n = 0) \/ n = 0
              THEN \* `continue`: next feed, nothing sampled, no commit
                   /\ all_feed_stats' = opened
                   /\ rss_i' = Continue(rss_i)
                   /\ pc' = "feed"
                   /\ UNCHANGED <<random_entries, entry_i>>
              ELSE \E k \in RandInts(max_entries_per_rss) :
                   \E batch \in Sample(d.entries, SampleCount(n, k)) :
                       /\ random_entries' = batch
                       /\ all_feed_stats' =
                              [opened EXCEPT ![Len(opened)].available = n,
                                             ![Len(opened)].selected = Len(batch)]
                       /\ entry_i' = 1
                       /\ rss_i' = rss_i
                       /\ pc' = "entry"
    /\ UNCHANGED <<runs, result, db, conn, running_mode, max_entries_per_rss, rss_links,
                   resp, retry_after, posts, trace, released, failedUrls, postedUrls,
                   run_start, prev_run>>

\* line 283: conn.commit() after the last entry of the feed
CommitFeed ==
    /\ pc = "entry"
    /\ entry_i > Len(random_entries)
    /\ db' = Commit(db, conn)
    /\ rss_i' = rss_i + 1
    /\ pc' = "feed"
    /\ UNCHANGED <<runs, result, conn, running_mode, max_entries_per_rss, rss_links,
                   all_feed_stats, data, random_entries, entry_i, resp, retry_after,
                   posts, trace, released, failedUrls, postedUrls, run_start, prev_run>>

\* lines 285-313: the feed loop is over; leaving the `with` block commits; return 0
Finish ==
    /\ pc = "feed"
    /\ rss_i > rss_links
    /\ db' = Commit(db, conn)
    /\ result' = "return0"
    /\ prev_run' = IF rss_links = 1 /\ stats.selected = Len(data.entries)
                        /\ DistinctLinks(data.entries)
                   THEN [feed |-> data.entries, failed |-> stats.failed]
                   ELSE NoRun
    /\ Exit
    /\ UNCHANGED <<runs, posts>>

\* ----------------------------------------------------------- entry level
\* what conn.execute can end in: the statement runs, or sqlite3 raises an error
\* (database locked, disk full, file damaged)
StoreOutcomes == {"ok", "error"}

\* mutant: the empty link counts as a link
HasLinkAlways(link) == TRUE

\* `if not entry_link` is false
HasLink(link) == link # ""

\* mutant: every mode posts
DeliversAlways(mode) == TRUE

\* `if running_mode == Mode.DEVELOPMENT: ... continue` is not taken
Delivers(mode) == mode # DEVELOPMENT

\* a sqlite3.Error raised by the INSERT or the DELETE: no handler in main()
\* catches it, the `with` block rolls the transaction back and the process ends
\* with a traceback
StoreError ==
    /\ result' = "store_error"
    /\ prev_run' = NoRun
    /\ Exit
    /\ UNCHANGED <<runs, db, posts>>

entry_link == random_entries[entry_i].link

\* what stays as it is while the entries of a feed are processed
EntryFrame ==
    UNCHANGED <<runs, result, db, running_mode, max_entries_per_rss, rss_links, rss_i,
                data, random_entries, run_start, prev_run>>

\* lines 219-255: skip a link-less entry, reserve the link, count duplicate or new
Reserve ==
    /\ pc = "entry"
    /\ entry_i <= Len(random_entries)
    /\ \E s \in StoreOutcomes :
        IF HasLink(entry_link) /\ s = "error"
        THEN StoreError
        ELSE /\ IF ~HasLink(entry_link)
                THEN /\ entry_i' = entry_i + 1
                     /\ trace' = <<>>
                     /\ UNCHANGED <<pc, conn, all_feed_stats, released>>
                ELSE /\ conn' = InsertOrIgnore(conn, entry_link, runs)
                     /\ IF RowCount(conn, entry_link) = 0
                        THEN /\ all_feed_stats' =
                                 [Bump(all_feed_stats, "duplicate")
                                     EXCEPT ![Len(all_feed_stats)].duplicates =
                                         Append(@, DuplicateEntry(entry_link, runs))]
                             /\ entry_i' = entry_i + 1
                             /\ trace' = <<Event("ignored", "", 0)>>
                             /\ UNCHANGED <<pc, released>>
                        ELSE /\ all_feed_stats' = Bump(all_feed_stats, "new")
                             /\ trace' = <<Event("insert", "", 0)>>
                             /\ released' = released \ {entry_link}
                             /\ IF Delivers(running_mode)
                                THEN /\ entry_i' = entry_i
                                     /\ pc' = "post"
                                ELSE /\ entry_i' = entry_i + 1
                                     /\ pc' = pc
             /\ UNCHANGED <<resp, retry_after, posts, failedUrls, postedUrls>>
             /\ EntryFrame

\* what requests.post can end in: a 2xx response, a 429 response, another
\* non-success status, or a RequestException raised by the transport
Outcomes == {"ok", "429", "status", "exception"}

\* the 429 body: retry_after present and numeric, body not JSON, key missing,
\* or a value float() rejects
Bodies == {[kind |-> "number", value |-> v] : v \in RetryHints}
              \cup {[kind |-> k, value |-> 0] : k \in {"notjson", "nokey", "badvalue"}}

\* resp.json().get("retry_after", 5), 5 when the body is not JSON
RetryAfter(body) == IF body.kind = "number" THEN body.value ELSE DefaultRetryAfter

\* mutant: the row is deleted after a successful POST as well
PostedThenDeleted ==
    /\ all_feed_stats' = Bump(all_feed_stats, "posted")
    /\ posts' = [posts EXCEPT ![entry_link] = @ + 1]
    /\ postedUrls' = postedUrls \cup {entry_link}
    /\ conn' = DeleteUrl(conn, entry_link)
    /\ UNCHANGED <<released, failedUrls>>

\* raise_for_status() passed: stats.posted += 1
Posted ==
    /\ all_feed_stats' = Bump(all_feed_stats, "posted")
    /\ posts' = [posts EXCEPT ![entry_link] = @ + 1]
    /\ postedUrls' = postedUrls \cup {entry_link}
    /\ UNCHANGED <<conn, released, failedUrls>>

\* mutant: the failure is counted but the row stays
FailedKeepsRow ==
    /\ all_feed_stats' = Bump(all_feed_stats, "failed")
    /\ conn' = conn
    /\ released' = released \cup {entry_link}
    /\ failedUrls' = failedUrls \cup {entry_link}
    /\ UNCHANGED <<posts, postedUrls>>

\* RequestException caught: count the failure, delete the row
Failed ==
    /\ all_feed_stats' = Bump(all_feed_stats, "failed")
    /\ conn' = DeleteUrl(conn, entry_link)
    /\ released' = released \cup {entry_link}
    /\ failedUrls' = failedUrls \cup {entry_link}
    /\ UNCHANGED <<posts, postedUrls>>

\* an exception main() does not catch: the `with` block rolls the transaction
\* back and the process ends with a traceback
Raise ==
    /\ result' = "raised"
    /\ prev_run' = NoRun
    /\ Exit
    /\ UNCHANGED <<runs, db, posts>>

\* the first requests.post and what follows it up to the sleep or the cool-down
Post ==
    /\ pc = "post"
    /\ \E o \in Outcomes :
        CASE o = "ok" ->
                /\ resp' = [NoResp EXCEPT !.status = o]
                /\ Posted
                /\ trace' = Append(trace, Event("post", o, 0))
                /\ pc' = "cooldown"
                /\ UNCHANGED <<retry_after, entry_i>>
                /\ EntryFrame
          [] o = "429" ->
                \E body \in Bodies :
                    IF body.kind = "badvalue"
                    THEN Raise
                    ELSE /\ resp' = [status |-> o, body |-> body]
                         /\ retry_after' = RetryAfter(body)
                         /\ trace' = Append(trace, Event("post", o, 0))
                         /\ pc' = "sleep"
                         /\ UNCHANGED <<conn, all_feed_stats, posts, released,
                                        failedUrls, postedUrls, entry_i>>
                         /\ EntryFrame
          [] OTHER ->
                \E s \in StoreOutcomes :
                    IF s = "error"
                    THEN StoreError
                    ELSE /\ resp' = [NoResp EXCEPT !.status = o]
                         /\ Failed
                         /\ trace' = Append(Append(trace, Event("post", o, 0)),
                                            Event("delete", "", 0))
                         /\ pc' = "cooldown"
                         /\ UNCHANGED <<retry_after, entry_i>>
                         /\ EntryFrame

\* time.sleep(float(retry_after))
Backoff ==
    /\ pc = "sleep"
    /\ trace' = Append(trace, Event("backoff", "", retry_after))
    /\ pc' = "retry"
    /\ UNCHANGED <<conn, all_feed_stats, entry_i, resp, retry_after, posts, released,
                   failedUrls, postedUrls>>
    /\ EntryFrame

\* mutant: a 429 on the retry sleeps and retries again
RetryWhileRateLimited ==
    /\ pc = "retry"
    /\ \E o \in Outcomes :
        /\ resp' = [NoResp EXCEPT !.status = o]
        /\ CASE o = "ok" ->
                  /\ Posted
                  /\ trace' = Append(trace, Event("post", o, 0))
                  /\ pc' = "cooldown"
             [] o = "429" ->
                  /\ trace' = Append(trace, Event("post", o, 0))
                  /\ pc' = "sleep"
                  /\ UNCHANGED <<conn, all_feed_stats, posts, released, failedUrls,
                                 postedUrls>>
             [] OTHER ->
                  /\ Failed
                  /\ trace' = Append(Append(trace, Event("post", o, 0)),
                                     Event("delete", "", 0))
                  /\ pc' = "cooldown"
    /\ UNCHANGED <<retry_after, entry_i>>
    /\ EntryFrame

\* the one retry; a second 429 fails raise_for_status() like any error status
Retry ==
    /\ pc = "retry"
    /\ \E o \in Outcomes, s \in StoreOutcomes :
        IF o # "ok" /\ s = "error"
        THEN StoreError
        ELSE /\ resp' = [NoResp EXCEPT !.status = o]
             /\ IF o = "ok"
                THEN /\ Posted
                     /\ trace' = Append(trace, Event("post", o, 0))
                ELSE /\ Failed
                     /\ trace' = Append(Append(trace, Event("post", o, 0)),
                                        Event("delete", "", 0))
             /\ pc' = "cooldown"
             /\ UNCHANGED <<retry_after, entry_i>>
             /\ EntryFrame

\* mutant: the next entry starts without the cool-down
NoCooldown ==
    /\ pc = "cooldown"
    /\ trace' = trace
    /\ entry_i' = entry_i + 1
    /\ resp' = NoResp
    /\ retry_after' = 0
    /\ pc' = "entry"
    /\ UNCHANGED <<conn, all_feed_stats, posts, released, failedUrls, postedUrls>>
    /\ EntryFrame

\* mutant: after the cool-down the same entry is processed again
CooldownThenSameEntry ==
    /\ pc = "cooldown"
    /\ trace' = Append(trace, Event("cooldown", "", CoolDown))
    /\ entry_i' = entry_i
    /\ resp' = NoResp
    /\ retry_after' = 0
    /\ pc' = "entry"
    /\ UNCHANGED <<conn, all_feed_stats, posts, released, failedUrls, postedUrls>>
    /\ EntryFrame

\* time.sleep(1), then the next entry; resp and retry_after are not read again
\* before they are assigned
Cooldown ==
    /\ pc = "cooldown"
    /\ trace' = Append(trace, Event("cooldown", "", CoolDown))
    /\ entry_i' = entry_i + 1
    /\ resp' = NoResp
    /\ retry_after' = 0
    /\ pc' = "entry"
    /\ UNCHANGED <<conn, all_feed_stats, posts, released, failedUrls, postedUrls>>
    /\ EntryFrame

\* the process is killed while a run is under way: sqlite drops the open transaction
Terminate ==
    /\ pc # "idle"
    /\ result' = "killed"
    /\ prev_run' = NoRun
    /\ Exit
    /\ UNCHANGED <<runs, db, posts>>

Next ==
    \/ ConfigError
    \/ StartRun
    \/ Fetch
    \/ Reserve
    \/ Post
    \/ Backoff
    \/ Retry
    \/ Cooldown
    \/ CommitFeed
    \/ Finish
    \/ Terminate

Spec == Init /\ [][Next]_vars

\* ------------------------------------------------------------- properties
\* the feed loop is over: the counters are final and the summary is printed
AtSummary == pc = "feed" /\ rss_i > rss_links

\* the store as the program sees it: through the connection while it runs
Store == IF pc = "idle" THEN db.rows ELSE conn

\* a step of the running process (not its end)
Running == pc # "idle" /\ pc' # "idle"

\* the POSTs of the entry being processed
PostEvents == {i \in DOMAIN trace : trace[i].op = "post"}
BackoffEvents(t) == {i \in DOMAIN t : t[i].op = "backoff"}

\* C1: across any sequence of live-mode runs over the same store, every URL
\* is posted successfully at most once.
AtMostOnceDelivery == \A u \in Links : posts[u] <= 1

\* C1: the double delivery: a URL has been posted successfully twice.
PostedTwice == \E u \in Links : posts[u] = 2

\* C2 (as claimed): after a run, no URL whose delivery ended in Failed during
\* the run is in the store.
FailedUrlAbsentAfterRun ==
    AtSummary => \A u \in failedUrls : u \notin Urls(conn)

\* a delivery ends in Failed: transport error or non-success status on the first
\* POST, or anything but success on the retried one
FailureStep ==
    /\ Running
    /\ \/ pc = "post" /\ resp'.status \in {"status", "exception"}
       \/ pc = "retry" /\ resp'.status # "ok"

\* the reservation of a URL that was rolled back earlier in the run
ReservesReleased ==
    /\ Running
    /\ pc = "entry"
    /\ entry_i <= Len(random_entries)
    /\ entry_link \in released

\* C2 (amended): a Failed delivery increments `failed` by exactly 1 and deletes
\* the record before the next entry is processed; a rolled-back URL stays out of
\* the store (committed or not) until an entry reserves it again, and that next
\* reservation succeeds (counted as new).
RollbackCorrect ==
    [][ /\ FailureStep =>
            /\ stats'.failed = stats.failed + 1
            /\ stats'.posted = stats.posted
            /\ entry_link \notin Urls(conn')
            /\ entry_link \in released'
            /\ pc' = "cooldown"
        /\ ReservesReleased =>
            /\ stats'.new = stats.new + 1
            /\ stats'.duplicate = stats.duplicate
            /\ entry_link \in Urls(conn')
        /\ \A u \in released' : u \notin Urls(conn') /\ u \notin Urls(db'.rows)
      ]_vars

\* C2: a reserved entry whose delivery failed: counted once, record gone.
RolledBack ==
    /\ pc = "cooldown"
    /\ resp.status \in {"status", "exception", "429"}
    /\ stats.failed = 1
    /\ entry_link \in released
    /\ entry_link \notin Urls(conn)

\* C3: when the process is terminated, every URL posted successfully so far has
\* a persisted record and every URL rolled back in the run has none.
CrashConsistent ==
    [][ (pc # "idle" /\ result' = "killed") =>
            /\ \A u \in Links : posts[u] > 0 => u \in Urls(db'.rows)
            /\ \A u \in released : u \notin Urls(db'.rows)
      ]_vars

\* the records the store holds for a url
RecordsOf(u) == {r \in Store : r.url = u}

\* C4: the store holds at most one record per URL, a successfully posted URL
\* has exactly one, and creating the schema at start-up keeps the records.
StoreUniqueness ==
    /\ \A u \in Links :
        /\ Cardinality(RecordsOf(u)) <= 1
        /\ posts[u] > 0 => Cardinality(RecordsOf(u)) = 1
    /\ CreateTableIfNotExists(db).rows = db.rows

\* C5: a reserved entry gets at most two POSTs; the second only after a 429
\* on the first and the back-off sleep of the suggested duration (5 when the
\* hint is unreadable); a first POST that fails otherwise is not retried; a
\* retried POST that fails (a second 429 included) ends in Failed with the
\* record deleted.
BoundedRetry ==
    /\ Cardinality(PostEvents) <= 2
    /\ PostEvents # {} => trace[1].op = "insert"
    /\ \A i, j \in PostEvents :
        i < j => /\ trace[i].status = "429"
                 /\ j = i + 2
                 /\ trace[i + 1].op = "backoff"
    /\ pc = "retry" =>
        /\ trace[Len(trace)].op = "backoff"
        /\ trace[Len(trace)].secs =
               IF resp.body.kind = "number" THEN resp.body.value ELSE 5
    /\ \A i \in PostEvents :
        (trace[i].status \in {"status", "exception"}
            \/ (trace[i].status = "429" /\ i > 2)) =>
                /\ i + 1 \in DOMAIN trace
                /\ trace[i + 1].op = "delete"
                /\ \A j \in PostEvents : j <= i
                /\ pc = "cooldown" =>
                    entry_link \notin Urls(conn) /\ stats.failed >= 1

\* C5: the retried POST was answered 429 again and the entry was rolled back.
RetriedAndFailed ==
    /\ pc = "cooldown"
    /\ Cardinality(PostEvents) = 2
    /\ resp.status = "429"
    /\ entry_link \notin Urls(conn)

\* C6: a 429 on the first POST followed by a successful retry: exactly one
\* back-off wait, `posted` + 1, `failed` unchanged, the reservation kept.
RateLimitedThenPosted ==
    [][ (Running /\ pc = "retry" /\ resp'.status = "ok") =>
            /\ Cardinality(BackoffEvents(trace')) = 1
            /\ stats'.posted = stats.posted + 1
            /\ stats'.failed = stats.failed
            /\ stats'.new = stats.new
            /\ entry_link \in Urls(conn')
            /\ conn' = conn
      ]_vars

\* C6: the retry succeeded after one back-off.
PostedAfterBackoff ==
    /\ pc = "cooldown"
    /\ resp.status = "ok"
    /\ Cardinality(PostEvents) = 2
    /\ Cardinality(BackoffEvents(trace)) = 1
    /\ stats.posted = 1
    /\ entry_link \in Urls(conn)

\* the entry at hand has a link that already has a record
DuplicateStep ==
    /\ Running
    /\ pc = "entry"
    /\ entry_i <= Len(random_entries)
    /\ entry_link # ""
    /\ entry_link \in Urls(conn)

\* C7: on a duplicate, `duplicate` + 1 and one DuplicateEntry appended; no
\* delivery, cool-down or rollback; the existing record (url and deliveredAt)
\* and `new`, `posted`, `failed` unchanged.
DuplicatePath ==
    [][ DuplicateStep =>
            /\ stats'.duplicate = stats.duplicate + 1
            /\ stats'.duplicates =
                   Append(stats.duplicates, DuplicateEntry(entry_link, runs))
            /\ stats'.new = stats.new
            /\ stats'.posted = stats.posted
            /\ stats'.failed = stats.failed
            /\ conn' = conn
            /\ db' = db
            /\ posts' = posts
            /\ pc' = "entry"
            /\ entry_i' = entry_i + 1
            /\ \A i \in DOMAIN trace' :
                   trace'[i].op \notin {"post", "backoff", "delete", "cooldown"}
      ]_vars

\* C7: a duplicate of a record written by an earlier run was counted.
DuplicateOfOlderRecord ==
    /\ pc = "entry"
    /\ Len(trace) = 1
    /\ trace[1].op = "ignored"
    /\ stats.duplicate = 1
    /\ \E r \in conn : r.url = stats.duplicates[1].url /\ r.delivered < runs

\* the scenario of C8: a one-feed run over the feed the previous completed run
\* processed in full, again with every entry selected
SecondRunOfSameFeed ==
    /\ AtSummary
    /\ rss_links = 1
    /\ prev_run.feed # <<>>
    /\ data.entries = prev_run.feed
    /\ stats.selected = Len(data.entries)

AllDuplicates ==
    /\ stats.new = 0
    /\ stats.duplicate = Len(data.entries)
    /\ stats.posted = 0
    /\ stats.failed = 0

FirstRunOnEmptyStore ==
    /\ AtSummary
    /\ rss_links = 1
    /\ run_start = {}
    /\ DistinctLinks(data.entries)

\* C9 (as claimed): with more entries than maxCount, selected <= maxCount,
\* new = selected, duplicate = 0 and the store holds exactly `selected` rows.
FirstRunScenario ==
    (FirstRunOnEmptyStore /\ Len(data.entries) > max_entries_per_rss) =>
        /\ stats.selected <= max_entries_per_rss
        /\ stats.new = stats.selected
        /\ stats.duplicate = 0
        /\ Cardinality(conn) = stats.selected

\* C9 (amended): the store holds selected - failed rows: every selected entry
\* is reserved as new, and the failed deliveries are rolled back.
FirstRunScenarioLessFailed ==
    FirstRunOnEmptyStore =>
        /\ stats.selected <= max_entries_per_rss
        /\ stats.new = stats.selected
        /\ stats.duplicate = 0
        /\ Cardinality(conn) = stats.selected - stats.failed
        /\ Urls(conn) \subseteq {e.link : e \in {random_entries[i] : i \in DOMAIN random_entries}}

\* C9: a feed with more entries than the maximum, as many selected as the
\* maximum allows, one delivery failed and rolled back.
FirstRunDone ==
    /\ FirstRunOnEmptyStore
    /\ running_mode = PRODUCTION
    /\ Len(data.entries) > max_entries_per_rss
    /\ stats.selected = max_entries_per_rss
    /\ stats.failed = 1
    /\ Cardinality(conn) = stats.selected - 1

\* the parser signals a failure and returns no entries
ParseFailureStep ==
    /\ Running
    /\ pc = "feed"
    /\ data'.bozo
    /\ data'.entries = <<>>

\* C10: a parse failure with zero entries leaves the feed's counters at 0,
\* changes neither the store nor the deliveries, and hands the run on to the
\* next feed with the configuration and the earlier feeds' stats as they were;
\* the FeedStats of a feed that is over never change afterwards.
ParseFailureIsFeedScoped ==
    [][ /\ ParseFailureStep =>
            /\ all_feed_stats' = Append(all_feed_stats, FeedStats(rss_i))
            /\ conn' = conn
            /\ db' = db
            /\ posts' = posts
            /\ pc' = "feed"
            /\ rss_i' = rss_i + 1
            /\ UNCHANGED <<running_mode, max_entries_per_rss, rss_links, released,
                           failedUrls, run_start, runs, result>>
        /\ Running =>
            \A i \in DOMAIN all_feed_stats :
                (i < Len(all_feed_stats) \/ pc = "feed") =>
                    all_feed_stats'[i] = all_feed_stats[i]
      ]_vars

\* C10: the first feed of two failed to parse after the store had records; the
\* run is at the second feed.
FeedAfterParseFailure ==
    /\ pc = "feed"
    /\ data.bozo
    /\ data.entries = <<>>
    /\ rss_links = 2
    /\ rss_i = 2
    /\ all_feed_stats = <<FeedStats(1)>>
    /\ conn # {}

\* a step in which the INSERT or the DELETE of the current entry raised
\* (`result` records the sqlite3 error as what the step ran into)
StoreErrorStep == pc \in {"entry", "post", "retry"} /\ result' = "store_error"

\* C11: an error the store raises while a url is reserved (INSERT) or released
\* (DELETE) fails that entry only: `failed` of the feed goes up by one and the
\* run goes on with the next entry and the remaining feeds.
StoreErrorIsEntryScoped ==
    [][StoreErrorStep =>
          /\ pc' \in {"entry", "cooldown"}
          /\ Len(all_feed_stats') = Len(all_feed_stats)
          /\ stats'.failed = stats.failed + 1
          /\ rss_i' = rss_i]_vars

RECURSIVE SumOf(_, _)
\* the sum of one counter over a list of FeedStats
SumOf(list, f) == IF list = <<>> THEN 0 ELSE list[1][f] + SumOf(Tail(list), f)

\* the urls reserved since the run started and still seen through the connection
NewlyReserved == Urls(conn) \ Urls(run_start)

DiagnosticRun == pc # "idle" /\ running_mode = DEVELOPMENT

\* C12: in a DEVELOPMENT run no POST is made and no reservation is released:
\* every url reserved during the run is still in the store, `new` counts those
\* reservations, and posted and failed are 0 for every feed.
DiagnosticModeKeepsReservations ==
    DiagnosticRun =>
        /\ pc \in {"feed", "entry"}
        /\ PostEvents = {}
        /\ postedUrls = {}
        /\ failedUrls = {}
        /\ released = {}
        /\ run_start \subseteq conn
        /\ Cardinality(NewlyReserved) = SumOf(all_feed_stats, "new")
        /\ \A i \in 1..Len(all_feed_stats) :
              all_feed_stats[i].posted = 0 /\ all_feed_stats[i].failed = 0

\* a DEVELOPMENT run reaches its summary with urls it reserved
DiagnosticRunDone == AtSummary /\ running_mode = DEVELOPMENT /\ NewlyReserved # {}

\* a run that ends at a configuration check: it starts and ends in one step
ConfigErrorStep == pc = "idle" /\ runs' = runs + 1 /\ pc' = "idle"

\* a run that got past configuration ends (a kill from outside is not a return)
RunEndStep == pc # "idle" /\ pc' = "idle" /\ result' # "killed"

\* C13: the run returns non-zero exactly when a configuration error is found,
\* and then no feed is fetched, nothing is delivered and the store is neither
\* opened nor changed; every run that gets past configuration returns 0.
ExitCodes ==
    [][/\ ConfigErrorStep =>
            /\ result' = "return1"
            /\ db' = db
            /\ posts' = posts
            /\ all_feed_stats' = <<>>
       /\ RunEndStep => result' = "return0"]_vars

\* the entries of a list as a set
EntriesOf(list) == {list[i] : i \in DOMAIN list}

\* the feed under way has a sampled batch
BatchDrawn == pc \in {"entry", "post", "sleep", "retry", "cooldown"}

\* C14: the sampled batch has at most min(len(entries), maxCount) items, every
\* item is an entry of the input, no input entry is selected twice, and the
\* batch is empty only when the input is empty.
SamplerBounds ==
    /\ BatchDrawn =>
          /\ Len(random_entries) <= Min(Len(data.entries), max_entries_per_rss)
          /\ Len(random_entries) >= 1
          /\ EntriesOf(random_entries) \subseteq EntriesOf(data.entries)
          /\ Cardinality(EntriesOf(random_entries)) = Len(random_entries)
          /\ stats.selected = Len(random_entries)
    /\ \A i \in 1..Len(all_feed_stats) :
          all_feed_stats[i].available = 0 => all_feed_stats[i].selected = 0

\* a batch smaller than the feed and smaller than the configured maximum
SampledFewer ==
    /\ BatchDrawn
    /\ Len(data.entries) = 2
    /\ max_entries_per_rss = 2
    /\ Len(random_entries) = 1
    /\ random_entries[1] = data.entries[2]

\* the entry loop is at an entry whose link is missing or empty
AtLinklessEntry ==
    pc = "entry" /\ entry_i <= Len(random_entries) /\ entry_link = ""

\* C15: an entry without a link is skipped with no effect on the store or on
\* delivery: no reservation, no record, no POST, and none of new, duplicate,
\* posted, failed changes (the entry is counted in `selected` only).
LinklessEntrySkipped ==
    [][(AtLinklessEntry /\ Running) =>
          /\ pc' = "entry"
          /\ entry_i' = entry_i + 1
          /\ conn' = conn
          /\ db' = db
          /\ posts' = posts
          /\ all_feed_stats' = all_feed_stats
          /\ trace' = <<>>]_vars

\* a link-less entry has been skipped: the batch is past it with nothing counted
LinklessSkipped ==
    /\ pc = "entry"
    /\ entry_i = 2
    /\ random_entries[1].link = ""
    /\ stats.selected >= 1
    /\ stats.new + stats.duplicate = 0
    /\ trace = <<>>

\* C16: the transaction holding a feed's reservations and rollbacks is committed
\* after the feed's last entry and before the next feed is fetched: whenever a
\* feed is about to be fetched (or the summary written), every store change
\* made so far in the run is durable.
FeedCommitOrdering ==
    /\ [](pc = "feed" => db.rows = conn)
    /\ [][(Running /\ db' # db) =>
              /\ pc = "entry"
              /\ entry_i > Len(random_entries)
              /\ db'.rows = conn
              /\ pc' = "feed"
              /\ rss_i' = rss_i + 1]_vars

\* the second feed is about to be fetched; the first left a reservation and a
\* rollback, both committed
SecondFetchAfterCommit ==
    /\ pc = "feed"
    /\ rss_i = 2
    /\ rss_links = 2
    /\ Len(all_feed_stats) = 1
    /\ stats.posted >= 1
    /\ stats.failed >= 1
    /\ Urls(db.rows) \ Urls(run_start) # {}

\* a delivery attempt for the current entry is under way
Attempting == pc \in {"post", "sleep", "retry"}

\* C17 (as stated): once the delivery for a url has ended in Failed and its
\* reservation has been released, no further delivery attempt for that url is
\* made during the same run.
NoReattemptOfUrlInRun == Attempting => entry_link \notin failedUrls

\* C17 (amended): once the delivery for an entry has ended in Failed and its
\* reservation has been released, no further attempt is made for that entry
\* during the same run: nothing but the cool-down follows the release, and
\* the loops only move forward, to the next entry and to the next feed.
NoReattemptOfEntryInRun ==
    /\ [](\A i, j \in DOMAIN trace :
             (i < j /\ trace[i].op = "delete") => trace[j].op = "cooldown")
    /\ [][(Running /\ pc = "cooldown") => (pc' = "entry" /\ entry_i' = entry_i + 1)]_vars
    /\ [][Running =>
             /\ Len(all_feed_stats') >= Len(all_feed_stats)
             /\ rss_i' >= rss_i
             /\ (Len(all_feed_stats') = Len(all_feed_stats) => entry_i' >= entry_i)]_vars

\* the first entry failed and was released; the second entry, which carries the
\* same link, is being delivered in the same run
FailedUrlAttemptedByLaterEntry ==
    /\ Attempting
    /\ entry_i = 2
    /\ random_entries[1].link = entry_link
    /\ entry_link \in failedUrls
    /\ stats.failed = 1

\* C18: every POST for a url is made while a record for that url, inserted by
\* the current entry's reservation, is in the store; and after every delivery
\* outcome (posted, posted after a 429, failed and rolled back) the 1 s
\* cool-down elapses before the next entry's reservation or delivery starts.
ReserveThenDeliverThenCoolDown ==
    /\ Attempting =>
          /\ trace[1] = Event("insert", "", 0)
          /\ [url |-> entry_link, delivered |-> runs] \in conn
    /\ \A i \in PostEvents : i > 1 /\ trace[1] = Event("insert", "", 0)
    /\ (pc \in {"entry", "feed"} /\ PostEvents # {}) =>
          trace[Len(trace)] = Event("cooldown", "", CoolDown)
    /\ \A i \in DOMAIN trace :
          trace[i].op = "cooldown" => (i = Len(trace) /\ PostEvents # {})

\* the cool-down after a failed delivery has elapsed and the next entry has
\* reserved its own url and is being posted
NextDeliveryAfterCoolDown ==
    /\ pc = "post"
    /\ entry_i = 2
    /\ stats.failed = 1
    /\ stats.new = 2
    /\ random_entries[1].link # entry_link
    /\ random_entries[1].link \notin Urls(conn)
    /\ trace = <<Event("insert", "", 0)>>

\* the urls a live run may leave in the store: those it found, those it posted
FoundOrPosted == Urls(run_start) \cup postedUrls

\* the last entry of the feed is done and the commit is next
AtCommit == pc = "entry" /\ entry_i > Len(random_entries)

\* C19: in a PRODUCTION run, at every feed-level commit point and at the end of
\* the run, each url in the store was in the store when the run started or was
\* posted successfully during this run.
NoUndeliveredUrlReserved ==
    (pc # "idle" /\ running_mode = PRODUCTION) =>
        /\ Urls(db.rows) \subseteq FoundOrPosted
        /\ (AtCommit \/ pc = "feed") => Urls(conn) \subseteq FoundOrPosted

\* a live run over a store with rows at its summary, after a failed and a
\* posted delivery
LiveRunDoneAfterFailure ==
    /\ AtSummary
    /\ running_mode = PRODUCTION
    /\ run_start # {}
    /\ postedUrls # {}
    /\ failedUrls # {}

\* the sampled entries of the batch that carry no link
Linkless(batch) == {j \in DOMAIN batch : batch[j].link = ""}

\* feed number i of the run has been processed to its last entry
FeedFinished(i) == i < Len(all_feed_stats) \/ pc = "feed" \/ AtCommit

\* random_entries is the batch of the feed that has just finished
BatchOfFinishedFeed ==
    AtCommit \/ (pc = "feed" /\ Len(all_feed_stats) > 0 /\ stats.selected > 0)

\* C20: for every FeedStats of the run, selected <= min(available, maxCount),
\* new + duplicate <= selected, posted + failed <= new and the number of
\* DuplicateEntry records equals `duplicate`; when a feed has finished in live
\* mode, posted + failed = new, and selected - new - duplicate is the number of
\* sampled entries without a link.
CounterInvariant ==
    /\ \A i \in 1 .. Len(all_feed_stats) :
          LET f == all_feed_stats[i]
          IN /\ f.selected <= Min(f.available, max_entries_per_rss)
             /\ f.new + f.duplicate <= f.selected
             /\ f.posted + f.failed <= f.new
             /\ Len(f.duplicates) = f.duplicate
             /\ (FeedFinished(i) /\ running_mode = PRODUCTION) =>
                    f.posted + f.failed = f.new
    /\ BatchOfFinishedFeed =>
          stats.selected - stats.new - stats.duplicate =
              Cardinality(Linkless(random_entries))

\* a live feed finished with one link-less entry, one duplicate-free failure
FeedFinishedWithLinkless ==
    /\ AtCommit
    /\ running_mode = PRODUCTION
    /\ stats.selected = 2
    /\ Cardinality(Linkless(random_entries)) = 1
    /\ stats.new = 1
    /\ stats.failed = 1

============================================================================
